---- MODULE Spec2Model ----
(***************************************************************************)
(* Session workflow of the healthcare translation front-end (app/main.py). *)
(* Every user interaction re-runs the whole script top to bottom; one      *)
(* action of the model is one such script run.  The session fields, the    *)
(* widget values and what the last run rendered, called and displayed are  *)
(* the state.                                                              *)
(***************************************************************************)
EXTENDS Integers, Sequences, FiniteSets, TLC

\* Number of distinct non-empty texts the external services may return.
NumTexts == 1

Texts == {""} \cup {ToString(i) : i \in 1..NumTexts}

\* ---------------------------------------------------------------- languages
English    == <<"E","n","g","l","i","s","h">>
Urdu       == <<"U","r","d","u">>
Spanish    == <<"S","p","a","n","i","s","h">>
French     == <<"F","r","e","n","c","h">>
German     == <<"G","e","r","m","a","n">>
Italian    == <<"I","t","a","l","i","a","n">>
Japanese   == <<"J","a","p","a","n","e","s","e">>
Korean     == <<"K","o","r","e","a","n">>
Portuguese == <<"P","o","r","t","u","g","u","e","s","e">>
Russian    == <<"R","u","s","s","i","a","n">>
Chinese    == <<"C","h","i","n","e","s","e">>

\* options of the two language selectboxes, in display order
Languages == <<English, Urdu, Spanish, French, German, Italian, Japanese,
               Korean, Portuguese, Russian, Chinese>>

LanguageSet == {Languages[i] : i \in 1..Len(Languages)}

\* options of the transcript selectbox, in display order
TranscriptOptions == <<"Original", "Checked">>

UpperCase == <<"A","B","C","D","E","F","G","H","I","J","K","L","M",
               "N","O","P","Q","R","S","T","U","V","W","X","Y","Z">>
LowerCase == <<"a","b","c","d","e","f","g","h","i","j","k","l","m",
               "n","o","p","q","r","s","t","u","v","w","x","y","z">>

\* str.lower() on one character
LowerChar(c) ==
    IF \E i \in 1..Len(UpperCase) : UpperCase[i] = c
    THEN LowerCase[CHOOSE i \in 1..Len(UpperCase) : UpperCase[i] = c]
    ELSE c

\* str.lower()
Lower(s) == [i \in 1..Len(s) |-> LowerChar(s[i])]

\* s[:n]
Prefix(s, n) == SubSeq(s, 1, IF Len(s) < n THEN Len(s) ELSE n)

LangCodeNoLower(tag) == Prefix(tag, 2)

\* target_lang[:2].lower()
LangCode(tag) == Lower(Prefix(tag, 2))

\* ------------------------------------------------------------------- state
VARIABLES
    original_transcript,    \* st.session_state.original_transcript
    checked_transcript,     \* st.session_state.checked_transcript
    translation,            \* st.session_state.translation
    audio_value,            \* value of the audio input widget
    transcript_to_translate,\* value of the transcript selectbox
    source_lang,            \* value of the source language selectbox
    target_lang,            \* value of the target language selectbox
    rendered,               \* widgets the last script run put on the page
    clicked,                \* the button whose click started the last run
    call,                   \* the external call the last run made
    messages,               \* status messages the last run displayed
    uncaught,               \* the last run ended in an exception nobody caught
    lastPair,               \* history: pair returned by the last successful transcription
    translatedInto,         \* history: target language given to the call that produced translation
    everCaptured,           \* history: some run saw recorded audio
    everTranscribed,        \* history: some transcription call returned
    everTranslated          \* history: some translation call on a non-empty transcript returned

session == <<original_transcript, checked_transcript, translation>>
widgets == <<audio_value, transcript_to_translate, source_lang, target_lang>>
lastRun == <<rendered, clicked, call, messages, uncaught>>
history == <<lastPair, translatedInto, everCaptured, everTranscribed, everTranslated>>
vars == <<session, widgets, lastRun, history>>

None == "None"
Audio == "audio_bytes"
file_name == "recorded_audio.wav"
NoLang == <<>>

NoCall == [svc |-> "none", args |-> <<>>, outcome |-> "none", result |-> <<>>]

\* ------------------------------------------------------ external services
\* transcribe_audio(audio_data, file_name): returns (original, checked) or fails
transcribe_audio(data, name) ==
    {[raised |-> FALSE, value |-> <<o, c>>] : o \in Texts, c \in Texts}
      \cup {[raised |-> TRUE, value |-> <<>>]}

\* translate_transcript(transcript, source_lang, target_lang): returns text or fails
translate_transcript(text, src, tgt) ==
    {[raised |-> FALSE, value |-> <<t>>] : t \in Texts}
      \cup {[raised |-> TRUE, value |-> <<>>]}

\* gTTS(text=..., lang=...) followed by tts.save(...): writes the file or raises
gTTS(text, lang) ==
    {[raised |-> FALSE, value |-> <<>>], [raised |-> TRUE, value |-> <<>>]}

\* ------------------------------------------------------- page sections
\* lines 211-217: the audio input, and the Transcribe button under it
AudioSection(av) ==
    {"audio_input"} \cup (IF av # None THEN {"Transcribe Audio"} ELSE {})

\* lines 234-240: the three selectboxes and the Translate button
TranslationSection ==
    {"transcript_select", "source_select", "target_select", "Translate"}

PlaybackSectionAlways(tr) == {"Speak Translation"}

\* lines 252-253: the Speak button exists only for a non-empty translation
PlaybackSection(tr) ==
    IF tr # "" THEN {"Speak Translation"} ELSE {}

SelectedTranscriptAlwaysOriginal(choice, original, checked) == original

\* line 235
SelectedTranscript(choice, original, checked) ==
    IF choice = "Original" THEN original ELSE checked

transcript ==
    SelectedTranscript(transcript_to_translate, original_transcript, checked_transcript)

\* ------------------------------------------------------------------ init
\* the state after the first script run of a fresh session
Init ==
    /\ original_transcript = ""
    /\ checked_transcript = ""
    /\ translation = ""
    /\ audio_value = None
    /\ transcript_to_translate = TranscriptOptions[1]
    /\ source_lang = Languages[1]
    /\ target_lang = Languages[1]
    /\ rendered = AudioSection(None) \cup TranslationSection \cup PlaybackSection("")
    /\ clicked = "none"
    /\ call = NoCall
    /\ messages = {}
    /\ uncaught = FALSE
    /\ lastPair = <<"", "">>
    /\ translatedInto = NoLang
    /\ everCaptured = FALSE
    /\ everTranscribed = FALSE
    /\ everTranslated = FALSE

\* ------------------------------------------------- runs without a button
\* A script run in which no button reads True: nothing is called or stored.
IdleRun(av, choice, src, tgt) ==
    /\ audio_value' = av
    /\ transcript_to_translate' = choice
    /\ source_lang' = src
    /\ target_lang' = tgt
    /\ UNCHANGED session
    /\ rendered' = AudioSection(av) \cup TranslationSection \cup PlaybackSection(translation)
    /\ clicked' = "none"
    /\ call' = NoCall
    /\ messages' = {}
    /\ uncaught' = FALSE
    /\ everCaptured' = (everCaptured \/ av # None)
    /\ UNCHANGED <<lastPair, translatedInto, everTranscribed, everTranslated>>

RecordAudio ==
    /\ "audio_input" \in rendered
    /\ IdleRun(Audio, transcript_to_translate, source_lang, target_lang)

ClearAudio ==
    /\ "audio_input" \in rendered
    /\ audio_value # None
    /\ IdleRun(None, transcript_to_translate, source_lang, target_lang)

SelectTranscript(choice) ==
    /\ "transcript_select" \in rendered
    /\ choice # transcript_to_translate
    /\ IdleRun(audio_value, choice, source_lang, target_lang)

SelectSource(lang) ==
    /\ "source_select" \in rendered
    /\ lang # source_lang
    /\ IdleRun(audio_value, transcript_to_translate, lang, target_lang)

SelectTarget(lang) ==
    /\ "target_select" \in rendered
    /\ lang # target_lang
    /\ IdleRun(audio_value, transcript_to_translate, source_lang, lang)

ClickDownload ==
    /\ "Download Audio" \in rendered
    /\ IdleRun(audio_value, transcript_to_translate, source_lang, target_lang)

\* ------------------------------------------------------ Transcribe Audio
\* what a run leaves behind when an exception leaves the script at a call:
\* the session as it was, the page as far as it had been built
Escaped(svc, args, page) ==
    /\ UNCHANGED session
    /\ rendered' = page
    /\ call' = [svc |-> svc, args |-> args, outcome |-> "raised", result |-> <<>>]
    /\ messages' = {}
    /\ uncaught' = TRUE
    /\ UNCHANGED <<lastPair, translatedInto, everTranscribed, everTranslated>>

\* variant: only the first field of the pair is stored
TranscribeHandlerStoresOriginalOnly(r) ==
    IF r.raised
    THEN Escaped("transcribe_audio", <<audio_value, file_name>>, AudioSection(audio_value))
    ELSE /\ original_transcript' = r.value[1]
         /\ UNCHANGED <<checked_transcript, translation>>
         /\ rendered' = AudioSection(audio_value) \cup TranslationSection
                          \cup PlaybackSection(translation)
         /\ call' = [svc |-> "transcribe_audio", args |-> <<audio_value, file_name>>,
                     outcome |-> "returned", result |-> r.value]
         /\ messages' = {"Transcription completed!"}
         /\ uncaught' = FALSE
         /\ lastPair' = r.value
         /\ everTranscribed' = TRUE
         /\ UNCHANGED <<translatedInto, everTranslated>>

\* variant: a failed call blanks the transcripts before the error leaves
TranscribeHandlerBlanksOnFailure(r) ==
    IF r.raised
    THEN /\ original_transcript' = ""
         /\ checked_transcript' = ""
         /\ UNCHANGED translation
         /\ rendered' = AudioSection(audio_value)
         /\ call' = [svc |-> "transcribe_audio", args |-> <<audio_value, file_name>>,
                     outcome |-> "raised", result |-> <<>>]
         /\ messages' = {}
         /\ uncaught' = TRUE
         /\ UNCHANGED <<lastPair, translatedInto, everTranscribed, everTranslated>>
    ELSE /\ original_transcript' = r.value[1]
         /\ checked_transcript' = r.value[2]
         /\ UNCHANGED translation
         /\ rendered' = AudioSection(audio_value) \cup TranslationSection
                          \cup PlaybackSection(translation)
         /\ call' = [svc |-> "transcribe_audio", args |-> <<audio_value, file_name>>,
                     outcome |-> "returned", result |-> r.value]
         /\ messages' = {"Transcription completed!"}
         /\ uncaught' = FALSE
         /\ lastPair' = r.value
         /\ everTranscribed' = TRUE
         /\ UNCHANGED <<translatedInto, everTranslated>>

\* lines 217-225, then the rest of the script with the other buttons False
TranscribeHandler(r) ==
    IF r.raised
    THEN Escaped("transcribe_audio", <<audio_value, file_name>>, AudioSection(audio_value))
    ELSE /\ original_transcript' = r.value[1]
         /\ checked_transcript' = r.value[2]
         /\ UNCHANGED translation
         /\ rendered' = AudioSection(audio_value) \cup TranslationSection
                          \cup PlaybackSection(translation)
         /\ call' = [svc |-> "transcribe_audio", args |-> <<audio_value, file_name>>,
                     outcome |-> "returned", result |-> r.value]
         /\ messages' = {"Transcription completed!"}
         /\ uncaught' = FALSE
         /\ lastPair' = r.value
         /\ everTranscribed' = TRUE
         /\ UNCHANGED <<translatedInto, everTranslated>>

ClickTranscribe ==
    /\ "Transcribe Audio" \in rendered
    /\ audio_value # None
    /\ clicked' = "Transcribe Audio"
    /\ everCaptured' = TRUE
    /\ UNCHANGED widgets
    /\ \E r \in transcribe_audio(audio_value, file_name) : TranscribeHandler(r)

\* ------------------------------------------------------------- Translate
\* variant: the result is also written over the checked transcript
TranslateHandlerOverwritesChecked(r) ==
    IF r.raised
    THEN Escaped("translate_transcript", <<transcript, source_lang, target_lang>>,
                 AudioSection(audio_value) \cup TranslationSection)
    ELSE /\ translation' = r.value[1]
         /\ checked_transcript' = r.value[1]
         /\ UNCHANGED original_transcript
         /\ rendered' = AudioSection(audio_value) \cup TranslationSection
                          \cup PlaybackSection(r.value[1])
         /\ call' = [svc |-> "translate_transcript",
                     args |-> <<transcript, source_lang, target_lang>>,
                     outcome |-> "returned", result |-> r.value]
         /\ messages' = {"Translation completed!"}
         /\ uncaught' = FALSE
         /\ translatedInto' = target_lang
         /\ everTranslated' = (everTranslated \/ transcript # "")
         /\ UNCHANGED <<lastPair, everTranscribed>>

\* lines 240-247, then lines 249-253 with the Speak button False
TranslateHandler(r) ==
    IF r.raised
    THEN Escaped("translate_transcript", <<transcript, source_lang, target_lang>>,
                 AudioSection(audio_value) \cup TranslationSection)
    ELSE /\ translation' = r.value[1]
         /\ UNCHANGED <<original_transcript, checked_transcript>>
         /\ rendered' = AudioSection(audio_value) \cup TranslationSection
                          \cup PlaybackSection(r.value[1])
         /\ call' = [svc |-> "translate_transcript",
                     args |-> <<transcript, source_lang, target_lang>>,
                     outcome |-> "returned", result |-> r.value]
         /\ messages' = {"Translation completed!"}
         /\ uncaught' = FALSE
         /\ translatedInto' = target_lang
         /\ everTranslated' = (everTranslated \/ transcript # "")
         /\ UNCHANGED <<lastPair, everTranscribed>>

\* variant: the refusal also clears the old translation
TranslateRefusedClears ==
    /\ translation' = ""
    /\ UNCHANGED <<original_transcript, checked_transcript>>
    /\ rendered' = AudioSection(audio_value) \cup TranslationSection
    /\ call' = NoCall
    /\ messages' = {"Please transcribe an audio file before translating."}
    /\ uncaught' = FALSE
    /\ UNCHANGED <<lastPair, translatedInto, everTranscribed, everTranslated>>

\* lines 241-242: the guard on an empty transcript
TranslateRefused ==
    /\ UNCHANGED session
    /\ rendered' = AudioSection(audio_value) \cup TranslationSection
                     \cup PlaybackSection(translation)
    /\ call' = NoCall
    /\ messages' = {"Please transcribe an audio file before translating."}
    /\ uncaught' = FALSE
    /\ UNCHANGED <<lastPair, translatedInto, everTranscribed, everTranslated>>

\* variant: the empty-transcript guard is missing
ClickTranslateNoGuard ==
    /\ "Translate" \in rendered
    /\ clicked' = "Translate"
    /\ everCaptured' = (everCaptured \/ audio_value # None)
    /\ UNCHANGED widgets
    /\ \E r \in translate_transcript(transcript, source_lang, target_lang) :
           TranslateHandler(r)

ClickTranslate ==
    /\ "Translate" \in rendered
    /\ clicked' = "Translate"
    /\ everCaptured' = (everCaptured \/ audio_value # None)
    /\ UNCHANGED widgets
    /\ IF transcript = ""
       THEN TranslateRefused
       ELSE \E r \in translate_transcript(transcript, source_lang, target_lang) :
                TranslateHandler(r)

\* ------------------------------------------------------ Speak Translation
\* variant: the code comes from the language the text was translated into
SpeakHandlerUsesTranslatedInto(r) ==
    IF r.raised
    THEN Escaped("gTTS", <<translation, LangCode(translatedInto)>>,
                 AudioSection(audio_value) \cup TranslationSection
                   \cup PlaybackSection(translation))
    ELSE /\ UNCHANGED session
         /\ rendered' = AudioSection(audio_value) \cup TranslationSection
                          \cup PlaybackSection(translation)
                          \cup {"audio_player", "Download Audio"}
         /\ call' = [svc |-> "gTTS", args |-> <<translation, LangCode(translatedInto)>>,
                     outcome |-> "returned", result |-> <<"translated_speech.mp3">>]
         /\ messages' = {"Audio generated!"}
         /\ uncaught' = FALSE
         /\ UNCHANGED <<lastPair, translatedInto, everTranscribed, everTranslated>>

\* lines 253-269
SpeakHandler(r) ==
    IF r.raised
    THEN Escaped("gTTS", <<translation, LangCode(target_lang)>>,
                 AudioSection(audio_value) \cup TranslationSection
                   \cup PlaybackSection(translation))
    ELSE /\ UNCHANGED session
         /\ rendered' = AudioSection(audio_value) \cup TranslationSection
                          \cup PlaybackSection(translation)
                          \cup {"audio_player", "Download Audio"}
         /\ call' = [svc |-> "gTTS", args |-> <<translation, LangCode(target_lang)>>,
                     outcome |-> "returned", result |-> <<"translated_speech.mp3">>]
         /\ messages' = {"Audio generated!"}
         /\ uncaught' = FALSE
         /\ UNCHANGED <<lastPair, translatedInto, everTranscribed, everTranslated>>

ClickSpeak ==
    /\ "Speak Translation" \in rendered
    /\ translation # ""
    /\ clicked' = "Speak Translation"
    /\ everCaptured' = (everCaptured \/ audio_value # None)
    /\ UNCHANGED widgets
    /\ \E r \in gTTS(translation, LangCode(target_lang)) : SpeakHandler(r)

\* ------------------------------------------------------------------ spec
Next ==
    \/ RecordAudio
    \/ ClearAudio
    \/ \E choice \in {TranscriptOptions[i] : i \in 1..Len(TranscriptOptions)} :
           SelectTranscript(choice)
    \/ \E lang \in LanguageSet : SelectSource(lang)
    \/ \E lang \in LanguageSet : SelectTarget(lang)
    \/ ClickTranscribe
    \/ ClickTranslate
    \/ ClickSpeak
    \/ ClickDownload

Spec == Init /\ [][Next]_vars

TypeOK ==
    /\ session \in Texts \X Texts \X Texts
    /\ audio_value \in {None, Audio}
    /\ transcript_to_translate \in {"Original", "Checked"}
    /\ source_lang \in LanguageSet
    /\ target_lang \in LanguageSet
    /\ uncaught \in BOOLEAN

\* ================================================================ claims
Returned(svc) == call.svc = svc /\ call.outcome = "returned"
Raised(svc) == call.svc = svc /\ call.outcome = "raised"
SuccessMessages ==
    {"Transcription completed!", "Translation completed!", "Audio generated!"}

\* C1: between user actions the two transcript fields are always the pair
\* one transcription call returned (or both still the initial empty value);
\* a run whose transcription returned leaves exactly that call's pair.
C1_TranscriptsFromOneResult ==
    /\ <<original_transcript, checked_transcript>> = lastPair
    /\ Returned("transcribe_audio") =>
           <<original_transcript, checked_transcript>> = call.result

\* a later transcription has replaced both fields of an earlier, translated one
C1_Witness ==
    /\ Returned("transcribe_audio")
    /\ translation # ""
    /\ original_transcript = ""
    /\ checked_transcript = ""

\* C2: a Translate click while the selected transcript is empty makes no
\* service call, shows the warning, and leaves all three session fields as
\* they were.
C2_EmptyTranslateRefused ==
    [][(clicked' = "Translate"
          /\ (IF transcript_to_translate' = "Original"
              THEN original_transcript ELSE checked_transcript) = "")
       => /\ call'.svc = "none"
          /\ "Please transcribe an audio file before translating." \in messages'
          /\ UNCHANGED session]_vars

\* refused while an earlier translate had left a non-empty translation
C2_Witness ==
    /\ clicked = "Translate"
    /\ call = NoCall
    /\ "Please transcribe an audio file before translating." \in messages
    /\ translation # ""

\* C3: a run whose transcription or translation call failed leaves all three
\* session fields equal to their values before the run.
C3_FailedPhaseLeavesSession ==
    [][(call'.outcome = "raised"
          /\ call'.svc \in {"transcribe_audio", "translate_transcript"})
       => UNCHANGED session]_vars

\* a transcription failed over a session that already held results
C3_Witness ==
    /\ Raised("transcribe_audio")
    /\ original_transcript # ""
    /\ checked_transcript # ""
    /\ translation # ""

\* C4: a Translate run on a non-empty transcript whose call returned makes
\* translation the returned text and leaves both transcript fields alone.
C4_TranslateWritesOnlyTranslation ==
    [][(call'.svc = "translate_transcript" /\ call'.outcome = "returned")
       => /\ translation' = call'.result[1]
          /\ original_transcript' = original_transcript
          /\ checked_transcript' = checked_transcript]_vars

C4_Witness ==
    /\ Returned("translate_transcript")
    /\ call.args[1] # ""
    /\ translation = call.result[1]
    /\ translation # ""
    /\ checked_transcript = ""

\* C5: speech synthesis is called, and the download offered, only while
\* translation is non-empty; with an empty translation the page has no
\* Speak Translation button.
C5_SpeakOnlyWithTranslation ==
    /\ (call.svc = "gTTS" \/ "Download Audio" \in rendered) => translation # ""
    /\ translation = "" => "Speak Translation" \notin rendered

C5_Witness ==
    /\ Returned("gTTS")
    /\ "Download Audio" \in rendered
    /\ call.result = <<"translated_speech.mp3">>

\* C6: every failed service call is caught by the handler that made it and
\* shown as a failure message, with no success message and nothing uncaught.
C6_FailuresCaught ==
    call.outcome = "raised" =>
        /\ ~uncaught
        /\ messages # {}
        /\ messages \cap SuccessMessages = {}

\* C7: the code given to speech synthesis is the lowercased first two
\* letters of the selected target language, for each of the 11 languages,
\* and the text given is the current translation.
ExpectedCodes ==
    <<<<"e","n">>, <<"u","r">>, <<"s","p">>, <<"f","r">>, <<"g","e">>, <<"i","t">>,
      <<"j","a">>, <<"k","o">>, <<"p","o">>, <<"r","u">>, <<"c","h">>>>

C7_SpeechCodeIsLowercasedPrefix ==
    /\ Len(Languages) = 11
    /\ call.svc = "gTTS" =>
           \E i \in 1..Len(Languages) :
               /\ target_lang = Languages[i]
               /\ call.args = <<translation, ExpectedCodes[i]>>

C7_Witness ==
    /\ Returned("gTTS")
    /\ target_lang = Chinese
    /\ call.args = <<translation, <<"c","h">>>>

\* C8: changing the transcript selector changes no session field, and the
\* text a Translate run hands to the service is the original transcript
\* under "Original" and the checked one under "Checked".
C8_SelectorOnlySelects ==
    [][/\ transcript_to_translate' # transcript_to_translate => UNCHANGED session
       /\ call'.svc = "translate_transcript" =>
              call'.args[1] = (IF transcript_to_translate' = "Original"
                               THEN original_transcript ELSE checked_transcript)]_vars

C8_Witness ==
    /\ clicked = "Translate"
    /\ Returned("translate_transcript")
    /\ transcript_to_translate = "Checked"
    /\ call.args[1] = checked_transcript
    /\ original_transcript # checked_transcript

\* C9: translation is non-empty only after a Translate run on a non-empty
\* transcript whose call returned; that needs an earlier returned
\* transcription, which needs recorded audio.
C9_TranslationHasHistory ==
    /\ translation # "" => everTranslated
    /\ everTranslated => everTranscribed
    /\ everTranscribed => everCaptured

\* the translation outlives the transcripts and the recording it came from
C9_Witness ==
    /\ translation # ""
    /\ original_transcript = ""
    /\ checked_transcript = ""
    /\ audio_value = None

\* C10: the code of a Speak run comes from the target language selected at
\* that run, whatever language the translation was made into; changing the
\* target selector leaves translation as it is.
C10_SpeakUsesCurrentTarget ==
    [][/\ target_lang' # target_lang =>
              (translation' = translation /\ translatedInto' = translatedInto)
       /\ call'.svc = "gTTS" =>
              call'.args = <<translation, LangCode(target_lang')>>]_vars

\* translated into one language, spoken with the code of another
C10_Witness ==
    /\ call.svc = "gTTS"
    /\ translatedInto \in LanguageSet
    /\ translatedInto # target_lang
    /\ call.args = <<translation, LangCode(target_lang)>>
    /\ LangCode(translatedInto) # LangCode(target_lang)

====
